---- MODULE Spec2Model ----
(***************************************************************************)
(* Model of src/a2/script.js: class RelaxationMusicPlayer.                 *)
(*                                                                         *)
(* The controller owns independent pieces of state (player, focus timer,   *)
(* todo list); no handler of one touches the state of another.  Each gets  *)
(* a specification over its own handlers:                                  *)
(*   SpecTimer, SpecTimerFair, : startTimer, pauseTimer, resetTimer,       *)
(*   SpecTimerTicking            setTimer, the setInterval callback and    *)
(*                               the setTimeout callback of timerComplete  *)
(*   SpecPlayer                : the player's listeners, the continuations *)
(*                               of play() and the media element's events  *)
(*   SpecTodo                  : addTodo by click or Enter key, and the    *)
(*                               delegated click listener of the list      *)
(* Inline styles of buttons and the volume control carry no state another  *)
(* handler reads and are left out.                                         *)
(*                                                                         *)
(* Handlers are operators from a state record to a state record, so that   *)
(* a handler calling another (resetTimer calls pauseTimer) is a plain      *)
(* composition; the actions apply them to the variables.                   *)
(***************************************************************************)
EXTENDS Integers, Sequences, FiniteSets, TLC

VARIABLES
    \* ---- focus timer (script.js 48-52 and the DOM nodes it writes)
    timerMinutes,        \* this.timerMinutes
    timerSeconds,        \* this.timerSeconds
    timerInterval,       \* this.timerInterval: NULL or a setInterval handle
    timerRunning,        \* this.timerRunning
    timerDisplay,        \* this.timerDisplay.textContent
    timerStartText,      \* this.timerStart.textContent
    timerStartDisabled,  \* this.timerStart.disabled
    intervals,           \* host: handles of the intervals that are live
    timeouts,            \* host: number of pending setTimeout callbacks
    timerOp,             \* history: the last timer handler that ran
    awaitingReset,       \* history: completed, and not reset to 60:00 since
    \* ---- player (script.js 41-46, the media element, the DOM nodes)
    trackCount,          \* this.tracks.length, fixed by loadTracks at startup
    isPlaying,           \* this.isPlaying
    currentTrackIndex,   \* this.currentTrackIndex
    isShuffled,          \* this.isShuffled
    isRepeating,         \* this.isRepeating
    audioSrc,            \* this.audio.src: index of the track loaded, or NoSrc
    audioPaused,         \* this.audio.paused
    audioTime,           \* this.audio.currentTime, in whole seconds
    audioDuration,       \* this.audio.duration, NaN until metadata is loaded
    playsAccepted,       \* togglePlayPause play() requests in flight, started
    playsRefused,        \* togglePlayPause play() requests in flight, refused
    active,              \* track entries carrying the class 'active'
    trackTitle,          \* this.trackTitle.textContent, as a track index
    progressBarValue,    \* this.progressBar.value
    progressFillWidth,   \* this.progressFill.style.width
    currentTimeText,     \* this.currentTimeSpan.textContent
    totalTimeText,       \* this.totalTimeSpan.textContent
    fillPlaying,         \* 'playing' in this.progressFill.classList
    containerLoading,    \* 'loading' in this.progressContainer.classList
    playPauseIcon,       \* icon shown in this.playPauseBtn
    playerOp,            \* history: the last player handler that ran
    \* ---- todo list (script.js 54-56 and the DOM nodes it writes)
    todos,               \* this.todos
    todoIdCounter,       \* this.todoIdCounter
    todoInputValue,      \* this.todoInput.value
    todoListItems,       \* the <li> children of this.todoList
    todoCountText,       \* this.todoCount.textContent
    todoOp               \* history: the last todo handler that ran

timerVars == <<timerMinutes, timerSeconds, timerInterval, timerRunning,
               timerDisplay, timerStartText, timerStartDisabled,
               intervals, timeouts, timerOp, awaitingReset>>

playerVars == <<trackCount, isPlaying, currentTrackIndex, isShuffled,
                isRepeating, audioSrc, audioPaused, audioTime, audioDuration,
                playsAccepted, playsRefused, active, trackTitle,
                progressBarValue, progressFillWidth, currentTimeText,
                totalTimeText, fillPlaying, containerLoading, playPauseIcon,
                playerOp>>

todoVars == <<todos, todoIdCounter, todoInputValue, todoListItems,
              todoCountText, todoOp>>

vars == <<timerVars, playerVars, todoVars>>

----------------------------------------------------------------------------
(* Bounds of the model (not program constants).                            *)

\* pending one-shot callbacks of timerComplete the host may hold at once
MaxTimeouts == 1
\* live setInterval handles the host may hold at once
MaxIntervals == 2
\* track entries the markup may hold
MaxTracks == 3
\* length of every track, in seconds
TrackLength == 1
\* togglePlayPause play() requests that may be in flight at once
MaxPlayRequests == 2
\* Math.random() is drawn from {0, 1/RandomGrain, ..., (RandomGrain-1)/RandomGrain}
RandomGrain == 3
\* entries the todo collection may hold at once
MaxTodos == 3
\* entries addTodo may create in one session
MaxTodoIds == 3

----------------------------------------------------------------------------
(* Program constants.                                                      *)

DefaultMinutes == 60
SecondsWrap == 59
PadWidth == 2

\* null, which no setInterval handle equals (handles are positive)
NULL == 0
Presets == {60, 30, 15}
CompleteMessage == "Session Complete!"

\* the number NaN: every comparison with it is false
NaN == -1000
\* the media element before any source is assigned
NoSrc == -1

----------------------------------------------------------------------------
(* Number formatting: Number.prototype.toString and String.padStart.       *)

DigitChar(d) ==
    CASE d = 0 -> "0" [] d = 1 -> "1" [] d = 2 -> "2" [] d = 3 -> "3"
      [] d = 4 -> "4" [] d = 5 -> "5" [] d = 6 -> "6" [] d = 7 -> "7"
      [] d = 8 -> "8" [] d = 9 -> "9"

RECURSIVE NatToString(_)
NatToString(n) ==
    IF n < 10 THEN DigitChar(n)
    ELSE NatToString(n \div 10) \o DigitChar(n % 10)

toString(n) == IF n < 0 THEN "-" \o NatToString(0 - n) ELSE NatToString(n)

RECURSIVE padStart(_, _, _)
padStart(s, width, fill) ==
    IF Len(s) >= width THEN s ELSE padStart(fill \o s, width, fill)

formatTimer_noPad(minutes, seconds) ==
    toString(minutes) \o ":" \o toString(seconds)

formatTimer(minutes, seconds) ==
    padStart(toString(minutes), PadWidth, "0") \o ":"
        \o padStart(toString(seconds), PadWidth, "0")

----------------------------------------------------------------------------
(* The timer state as one record, and the handlers as operators on it.     *)

TimerState ==
    [timerMinutes |-> timerMinutes, timerSeconds |-> timerSeconds,
     timerInterval |-> timerInterval, timerRunning |-> timerRunning,
     timerDisplay |-> timerDisplay, timerStartText |-> timerStartText,
     timerStartDisabled |-> timerStartDisabled,
     intervals |-> intervals, timeouts |-> timeouts]

\* setInterval: the host hands out a handle no live interval has
setIntervalHandle(live) == CHOOSE h \in 1..(Cardinality(live) + 1) : h \notin live

updateTimerDisplay(t) ==
    [t EXCEPT !.timerDisplay = formatTimer(t.timerMinutes, t.timerSeconds)]

pauseTimer_keepsHandle(t) ==
    IF t.timerRunning
    THEN [t EXCEPT !.timerRunning = FALSE,
                   !.timerStartText = "Start",
                   !.timerStartDisabled = FALSE,
                   !.intervals = @ \ {t.timerInterval}]
    ELSE t

pauseTimer_keepsInterval(t) ==
    IF t.timerRunning
    THEN [t EXCEPT !.timerRunning = FALSE,
                   !.timerStartText = "Start",
                   !.timerStartDisabled = FALSE,
                   !.timerInterval = NULL]
    ELSE t

pauseTimer(t) ==
    IF t.timerRunning
    THEN LET stopped == [t EXCEPT !.timerRunning = FALSE,
                                  !.timerStartText = "Start",
                                  !.timerStartDisabled = FALSE]
         IN  IF stopped.timerInterval # NULL
             THEN [stopped EXCEPT !.intervals = @ \ {stopped.timerInterval},
                                  !.timerInterval = NULL]
             ELSE stopped
    ELSE t

startTimer_noRunningGuard(t) ==
    IF t.timerMinutes > 0 \/ t.timerSeconds > 0
    THEN LET h == setIntervalHandle(t.intervals)
         IN  [t EXCEPT !.timerRunning = TRUE,
                       !.timerStartText = "Running...",
                       !.timerStartDisabled = TRUE,
                       !.timerInterval = h,
                       !.intervals = @ \cup {h}]
    ELSE t

startTimer_noZeroGuard(t) ==
    IF ~t.timerRunning
    THEN LET h == setIntervalHandle(t.intervals)
         IN  [t EXCEPT !.timerRunning = TRUE,
                       !.timerStartText = "Running...",
                       !.timerStartDisabled = TRUE,
                       !.timerInterval = h,
                       !.intervals = @ \cup {h}]
    ELSE t

startTimer(t) ==
    IF ~t.timerRunning /\ (t.timerMinutes > 0 \/ t.timerSeconds > 0)
    THEN LET h == setIntervalHandle(t.intervals)
         IN  [t EXCEPT !.timerRunning = TRUE,
                       !.timerStartText = "Running...",
                       !.timerStartDisabled = TRUE,
                       !.timerInterval = h,
                       !.intervals = @ \cup {h}]
    ELSE t

resetTimer_keepsPreset(t) ==
    LET p == pauseTimer(t)
    IN  updateTimerDisplay([p EXCEPT !.timerSeconds = 0,
                                     !.timerStartText = "Start",
                                     !.timerStartDisabled = FALSE])

resetTimer(t) ==
    LET p == pauseTimer(t)
    IN  updateTimerDisplay([p EXCEPT !.timerMinutes = DefaultMinutes,
                                     !.timerSeconds = 0,
                                     !.timerStartText = "Start",
                                     !.timerStartDisabled = FALSE])

setTimer_noDisplay(t, minutes) ==
    LET p == pauseTimer(t)
    IN  [p EXCEPT !.timerMinutes = minutes,
                  !.timerSeconds = 0,
                  !.timerStartText = "Start",
                  !.timerStartDisabled = FALSE]

setTimer(t, minutes) ==
    LET p == pauseTimer(t)
    IN  updateTimerDisplay([p EXCEPT !.timerMinutes = minutes,
                                     !.timerSeconds = 0,
                                     !.timerStartText = "Start",
                                     !.timerStartDisabled = FALSE])

timerComplete_noReset(t) ==
    LET p == pauseTimer(t)
    IN  [p EXCEPT !.timerDisplay = CompleteMessage,
                  !.timerStartText = "Start",
                  !.timerStartDisabled = FALSE]

\* the notification and the chime write no state of the controller
timerComplete(t) ==
    LET p == pauseTimer(t)
    IN  [p EXCEPT !.timerDisplay = CompleteMessage,
                  !.timerStartText = "Start",
                  !.timerStartDisabled = FALSE,
                  !.timeouts = @ + 1]

timerTick_noZeroCheck(t) ==
    IF t.timerSeconds = 0
    THEN updateTimerDisplay([t EXCEPT !.timerMinutes = @ - 1,
                                      !.timerSeconds = SecondsWrap])
    ELSE updateTimerDisplay([t EXCEPT !.timerSeconds = @ - 1])

timerTick_noDisplay(t) ==
    IF t.timerSeconds = 0
    THEN IF t.timerMinutes = 0
         THEN timerComplete(t)
         ELSE [t EXCEPT !.timerMinutes = @ - 1, !.timerSeconds = SecondsWrap]
    ELSE [t EXCEPT !.timerSeconds = @ - 1]

timerTick_keepsMinutes(t) ==
    IF t.timerSeconds = 0
    THEN IF t.timerMinutes = 0
         THEN timerComplete(t)
         ELSE updateTimerDisplay([t EXCEPT !.timerSeconds = SecondsWrap])
    ELSE updateTimerDisplay([t EXCEPT !.timerSeconds = @ - 1])

\* the callback startTimer hands to setInterval
timerTick(t) ==
    IF t.timerSeconds = 0
    THEN IF t.timerMinutes = 0
         THEN timerComplete(t)
         ELSE updateTimerDisplay([t EXCEPT !.timerMinutes = @ - 1,
                                           !.timerSeconds = SecondsWrap])
    ELSE updateTimerDisplay([t EXCEPT !.timerSeconds = @ - 1])

\* the callback timerComplete hands to setTimeout; the host drops it once run
timerCompleteTimeout(t) == resetTimer([t EXCEPT !.timeouts = @ - 1])

----------------------------------------------------------------------------
(* JavaScript arithmetic the player relies on.                             *)

IsNaN(x) == x = NaN
JsGreaterEq(a, b) == ~IsNaN(a) /\ ~IsNaN(b) /\ a >= b
JsLess(a, b) == ~IsNaN(a) /\ ~IsNaN(b) /\ a < b
\* a % n for a >= 0: NaN when n is 0
JsRemainder(a, n) == IF IsNaN(a) \/ IsNaN(n) \/ n = 0 THEN NaN ELSE a % n

\* Math.floor(Math.random() * n), Math.random() being k / RandomGrain
randomIndex(k, n) == (k * n) \div RandomGrain

RECURSIVE GCD(_, _)
GCD(a, b) == IF b = 0 THEN a ELSE GCD(b, a % b)

\* the number a / b, as a fraction in lowest terms
Ratio(a, b) == LET g == GCD(a, b) IN <<a \div g, b \div g>>
Zero == <<0, 1>>

\* a CSS length in percent; Unset is the style the markup starts with
Percent(r) == [n |-> r, unit |-> "%"]
Unset == [n |-> Zero, unit |-> ""]

formatTime(seconds) ==
    toString(seconds \div 60) \o ":" \o padStart(toString(seconds % 60), PadWidth, "0")

----------------------------------------------------------------------------
(* The player state as one record, and the handlers as operators on it.    *)

PlayerState ==
    [trackCount |-> trackCount, isPlaying |-> isPlaying,
     currentTrackIndex |-> currentTrackIndex, isShuffled |-> isShuffled,
     isRepeating |-> isRepeating, audioSrc |-> audioSrc,
     audioPaused |-> audioPaused, audioTime |-> audioTime,
     audioDuration |-> audioDuration, playsAccepted |-> playsAccepted,
     playsRefused |-> playsRefused, active |-> active,
     trackTitle |-> trackTitle, progressBarValue |-> progressBarValue,
     progressFillWidth |-> progressFillWidth,
     currentTimeText |-> currentTimeText, totalTimeText |-> totalTimeText,
     fillPlaying |-> fillPlaying, containerLoading |-> containerLoading,
     playPauseIcon |-> playPauseIcon]

\* this.audio.src = ...: the media element loads the new resource, paused,
\* at position zero, its duration unknown until the metadata arrives
audioSetSrc(p, index) ==
    [p EXCEPT !.audioSrc = index, !.audioPaused = TRUE,
              !.audioTime = 0, !.audioDuration = NaN]

\* this.audio.play() whose promise nobody awaits; started tells whether the
\* host lets playback start (it refuses without a source or by policy)
audioPlay(p, started) ==
    IF started /\ p.audioSrc # NoSrc
    THEN [p EXCEPT !.audioPaused = FALSE,
                   !.audioTime = IF @ = p.audioDuration THEN 0 ELSE @]
    ELSE p

\* this.audio.play().then(...).catch(...): the request is in flight until
\* the host resolves or rejects it
audioPlayAwaited(p, started) ==
    IF started /\ p.audioSrc # NoSrc
    THEN [audioPlay(p, started) EXCEPT !.playsAccepted = @ + 1]
    ELSE [p EXCEPT !.playsRefused = @ + 1]

audioPause(p) == [p EXCEPT !.audioPaused = TRUE]

loadTrack_noBoundsCheck(p, index) ==
    [p EXCEPT !.currentTrackIndex = index]

loadTrack_keepsActive(p, index) ==
    IF JsGreaterEq(index, 0) /\ JsLess(index, p.trackCount)
    THEN [audioSetSrc(p, index) EXCEPT
              !.currentTrackIndex = index,
              !.trackTitle = index,
              !.active = @ \cup {index},
              !.progressBarValue = Zero,
              !.progressFillWidth = Percent(Zero),
              !.fillPlaying = FALSE,
              !.containerLoading = FALSE,
              !.currentTimeText = "0:00"]
    ELSE p

loadTrack(p, index) ==
    IF JsGreaterEq(index, 0) /\ JsLess(index, p.trackCount)
    THEN [audioSetSrc(p, index) EXCEPT
              !.currentTrackIndex = index,
              !.trackTitle = index,
              !.active = {index},
              !.progressBarValue = Zero,
              !.progressFillWidth = Percent(Zero),
              !.fillPlaying = FALSE,
              !.containerLoading = FALSE,
              !.currentTimeText = "0:00"]
    ELSE p

togglePlayPause(p, started) ==
    IF p.isPlaying
    THEN [audioPause(p) EXCEPT !.playPauseIcon = "play",
                               !.isPlaying = FALSE,
                               !.fillPlaying = FALSE,
                               !.containerLoading = FALSE]
    ELSE audioPlayAwaited([p EXCEPT !.containerLoading = TRUE], started)

\* the continuation togglePlayPause hands to then()
playFulfilled(p) ==
    [p EXCEPT !.playsAccepted = @ - 1,
              !.playPauseIcon = "pause",
              !.isPlaying = TRUE,
              !.fillPlaying = TRUE,
              !.containerLoading = FALSE]

playRejected_setsPlaying(p, wasStarted) ==
    [p EXCEPT !.playsAccepted = IF wasStarted THEN @ - 1 ELSE @,
              !.playsRefused = IF wasStarted THEN @ ELSE @ - 1,
              !.isPlaying = TRUE,
              !.containerLoading = FALSE]

\* the continuation togglePlayPause hands to catch()
playRejected(p, wasStarted) ==
    [p EXCEPT !.playsAccepted = IF wasStarted THEN @ - 1 ELSE @,
              !.playsRefused = IF wasStarted THEN @ ELSE @ - 1,
              !.containerLoading = FALSE]

nextIndex_noWrap(p, k) ==
    IF p.isShuffled THEN randomIndex(k, p.trackCount)
    ELSE p.currentTrackIndex + 1

\* the index playNext passes to loadTrack; k is the draw of Math.random()
nextIndex(p, k) ==
    IF p.isShuffled THEN randomIndex(k, p.trackCount)
    ELSE JsRemainder(p.currentTrackIndex + 1, p.trackCount)

playNext(p, k, started) ==
    LET q == loadTrack(p, nextIndex(p, k))
    IN  IF q.isPlaying THEN audioPlay(q, started) ELSE q

\* the index playPrevious passes to loadTrack
prevIndex(p) ==
    IF p.currentTrackIndex = 0 THEN p.trackCount - 1
    ELSE p.currentTrackIndex - 1

playPrevious(p, started) ==
    LET q == loadTrack(p, prevIndex(p))
    IN  IF q.isPlaying THEN audioPlay(q, started) ELSE q

toggleShuffle(p) == [p EXCEPT !.isShuffled = ~@]

toggleRepeat(p) == [p EXCEPT !.isRepeating = ~@]

\* progressBar.value holds num/den percent; seekTime = value / 100 * duration
seekTrack(p) ==
    IF IsNaN(p.audioDuration) THEN p
    ELSE [p EXCEPT !.audioTime = (p.progressBarValue[1] * p.audioDuration)
                                    \div (p.progressBarValue[2] * 100)]

updateProgress(p) ==
    IF ~IsNaN(p.audioDuration) /\ p.audioDuration # 0
    THEN LET progress == Ratio(p.audioTime * 100, p.audioDuration)
         IN  [p EXCEPT !.progressBarValue = progress,
                       !.progressFillWidth = Percent(progress),
                       !.currentTimeText = formatTime(p.audioTime)]
    ELSE p

updateTotalTime(p) ==
    IF ~IsNaN(p.audioDuration) /\ p.audioDuration # 0
    THEN [p EXCEPT !.totalTimeText = formatTime(p.audioDuration)]
    ELSE p

handleTrackEnd_noRepeat(p, k, started) == playNext(p, k, started)

handleTrackEnd(p, k, started) ==
    IF p.isRepeating
    THEN audioPlay([p EXCEPT !.audioTime = 0], started)
    ELSE playNext(p, k, started)

\* the track-list click listener; index is what indexOf returns for the
\* .track-item the click landed in
trackListClick(p, index) == loadTrack(p, index)

\* the state the constructor leaves for a page with n track entries of
\* which the markup marks the set marked as active
constructed(n, marked) ==
    loadTrack([trackCount |-> n, isPlaying |-> FALSE,
               currentTrackIndex |-> 0, isShuffled |-> FALSE,
               isRepeating |-> FALSE, audioSrc |-> NoSrc,
               audioPaused |-> TRUE, audioTime |-> 0,
               audioDuration |-> NaN, playsAccepted |-> 0,
               playsRefused |-> 0, active |-> marked,
               trackTitle |-> NoSrc, progressBarValue |-> Zero,
               progressFillWidth |-> Unset,
               currentTimeText |-> "0:00", totalTimeText |-> "0:00",
               fillPlaying |-> FALSE, containerLoading |-> FALSE,
               playPauseIcon |-> "play"], 0)

----------------------------------------------------------------------------
(* The todo list.  Texts are strings.  The timestamp of an entry is read   *)
(* by no handler and is left out.                                          *)

\* the texts the user leaves in the input: empty, blank, plain, padded
Texts == {"", "  ", "a", " b "}

WhiteSpace == {" ", "\t", "\n"}

RECURSIVE trimStart(_)
trimStart(s) ==
    IF Len(s) > 0 /\ SubSeq(s, 1, 1) \in WhiteSpace
    THEN trimStart(SubSeq(s, 2, Len(s)))
    ELSE s

RECURSIVE trimEnd(_)
trimEnd(s) ==
    IF Len(s) > 0 /\ SubSeq(s, Len(s), Len(s)) \in WhiteSpace
    THEN trimEnd(SubSeq(s, 1, Len(s) - 1))
    ELSE s

\* String.prototype.trim
trim(s) == trimEnd(trimStart(s))

DigitValue(c) ==
    CASE c = "0" -> 0 [] c = "1" -> 1 [] c = "2" -> 2 [] c = "3" -> 3
      [] c = "4" -> 4 [] c = "5" -> 5 [] c = "6" -> 6 [] c = "7" -> 7
      [] c = "8" -> 8 [] c = "9" -> 9 [] OTHER -> NaN

RECURSIVE parseDigits(_, _)
parseDigits(s, acc) ==
    IF Len(s) = 0 \/ IsNaN(DigitValue(SubSeq(s, 1, 1))) THEN acc
    ELSE parseDigits(SubSeq(s, 2, Len(s)),
                     10 * acc + DigitValue(SubSeq(s, 1, 1)))

\* parseInt of an unsigned decimal: the leading digits, NaN when there is none
parseInt(s) ==
    LET t == trimStart(s)
    IN  IF Len(t) = 0 \/ IsNaN(DigitValue(SubSeq(t, 1, 1))) THEN NaN
        ELSE parseDigits(t, 0)

\* a === b on numbers
JsStrictEq(a, b) == ~IsNaN(a) /\ ~IsNaN(b) /\ a = b

\* what parseInt is handed for an element that carries no data-id
NoDataId == "undefined"

TodoState ==
    [todos |-> todos, todoIdCounter |-> todoIdCounter,
     todoInputValue |-> todoInputValue, todoListItems |-> todoListItems,
     todoCountText |-> todoCountText]

\* the <li> renderTodos builds for one entry: a checkbox and a delete button
\* tagged with the id, and the text, struck through when completed
todoItem(todo) ==
    [checkboxId |-> toString(todo.id), checked |-> todo.completed,
     text |-> todo.text, struck |-> todo.completed,
     deleteId |-> toString(todo.id)]

renderTodos(d) ==
    [d EXCEPT !.todoListItems = [i \in 1..Len(d.todos) |-> todoItem(d.todos[i])]]

Incomplete(todo) == ~todo.completed

updateTodoCount(d) ==
    [d EXCEPT !.todoCountText = toString(Len(SelectSeq(d.todos, Incomplete)))]

addTodo_idFromLength(d) ==
    LET text == trim(d.todoInputValue)
    IN  IF text = "" THEN d
        ELSE updateTodoCount(renderTodos(
                 [d EXCEPT !.todos = Append(@, [id |-> Len(d.todos),
                                                text |-> text,
                                                completed |-> FALSE]),
                           !.todoIdCounter = @ + 1,
                           !.todoInputValue = ""]))

addTodo_noTrim(d) ==
    LET text == d.todoInputValue
    IN  IF text = "" THEN d
        ELSE updateTodoCount(renderTodos(
                 [d EXCEPT !.todos = Append(@, [id |-> d.todoIdCounter,
                                                text |-> text,
                                                completed |-> FALSE]),
                           !.todoIdCounter = @ + 1,
                           !.todoInputValue = ""]))

addTodo(d) ==
    LET text == trim(d.todoInputValue)
    IN  IF text = "" THEN d
        ELSE updateTodoCount(renderTodos(
                 [d EXCEPT !.todos = Append(@, [id |-> d.todoIdCounter,
                                                text |-> text,
                                                completed |-> FALSE]),
                           !.todoIdCounter = @ + 1,
                           !.todoInputValue = ""]))

\* Array.prototype.find: the position of the first entry with this id, 0 for
\* undefined
findTodo(list, id) ==
    LET hits == {i \in 1..Len(list) : JsStrictEq(list[i].id, id)}
    IN  IF hits = {} THEN 0 ELSE CHOOSE i \in hits : \A j \in hits : i <= j

toggleTodo_noRecount(d, id) ==
    LET i == findTodo(d.todos, id)
    IN  IF i = 0 THEN d
        ELSE renderTodos([d EXCEPT !.todos[i].completed = ~@])

toggleTodo(d, id) ==
    LET i == findTodo(d.todos, id)
    IN  IF i = 0 THEN d
        ELSE updateTodoCount(renderTodos([d EXCEPT !.todos[i].completed = ~@]))

deleteTodo_byPosition(d, id) ==
    updateTodoCount(renderTodos(
        [d EXCEPT !.todos = [i \in 1..(Len(@) - (IF id \in 0..(Len(@) - 1)
                                                 THEN 1 ELSE 0))
                               |-> IF i <= id THEN @[i] ELSE @[i + 1]]]))

deleteTodo(d, id) ==
    LET Kept(todo) == ~JsStrictEq(todo.id, id)
    IN  updateTodoCount(renderTodos([d EXCEPT !.todos = SelectSeq(@, Kept)]))

\* the elements of the rendered list a click can land on, with the class
\* the listener tests and the data-id it parses; the list itself is one
TodoClickTargets(d) ==
    {[class |-> "todo-list", dataId |-> NoDataId]}
      \cup UNION {{[class |-> "todo-checkbox", dataId |-> item.checkboxId],
                   [class |-> "todo-delete", dataId |-> item.deleteId],
                   [class |-> "todo-text", dataId |-> NoDataId],
                   [class |-> "todo-item", dataId |-> NoDataId]}
                  : item \in {d.todoListItems[i] : i \in 1..Len(d.todoListItems)}}

handleTodoClick(d, target) ==
    LET todoId == parseInt(target.dataId)
    IN  IF target.class = "todo-checkbox" THEN toggleTodo(d, todoId)
        ELSE IF target.class = "todo-delete" THEN deleteTodo(d, todoId)
        ELSE d

\* the keypress listener of the input
todoInputKeypress(d, key) == IF key = "Enter" THEN addTodo(d) ELSE d

----------------------------------------------------------------------------
(* Timer actions: one per event the host can deliver.  timerOp records the *)
(* handler that ran, its argument, and the minutes remaining when it was   *)
(* invoked; awaitingReset is raised by a completion and lowered when the   *)
(* timer is next in the reset state.                                       *)

IsReset(t) ==
    /\ ~t.timerRunning
    /\ t.timerMinutes = 60 /\ t.timerSeconds = 0
    /\ t.timerDisplay = "60:00"

\* the handler's result r is computed once, then written to the variables
TimerBecomes(t, op, arg) ==
    \E r \in {t} :
        /\ timerMinutes' = r.timerMinutes
        /\ timerSeconds' = r.timerSeconds
        /\ timerInterval' = r.timerInterval
        /\ timerRunning' = r.timerRunning
        /\ timerDisplay' = r.timerDisplay
        /\ timerStartText' = r.timerStartText
        /\ timerStartDisabled' = r.timerStartDisabled
        /\ intervals' = r.intervals
        /\ timeouts' = r.timeouts
        /\ timerOp' = [op |-> op, arg |-> arg, was |-> timerMinutes]
        /\ awaitingReset' = IF op = "timerComplete" THEN TRUE
                            ELSE IF IsReset(r) THEN FALSE
                            ELSE awaitingReset
        /\ UNCHANGED <<playerVars, todoVars>>

InitTimer ==
    /\ timerMinutes = DefaultMinutes
    /\ timerSeconds = 0
    /\ timerInterval = NULL
    /\ timerRunning = FALSE
    /\ timerDisplay = formatTimer(DefaultMinutes, 0)
    /\ timerStartText = "Start"
    /\ timerStartDisabled = FALSE
    /\ intervals = {}
    /\ timeouts = 0
    /\ timerOp = [op |-> "init", arg |-> 0, was |-> DefaultMinutes]
    /\ awaitingReset = FALSE

StartTimerClick ==
    /\ Cardinality(startTimer(TimerState).intervals) <= MaxIntervals
    /\ TimerBecomes(startTimer(TimerState), "startTimer", 0)

PauseTimerClick == TimerBecomes(pauseTimer(TimerState), "pauseTimer", 0)

ResetTimerClick == TimerBecomes(resetTimer(TimerState), "resetTimer", 0)

SetTimerClick ==
    \E minutes \in Presets :
        TimerBecomes(setTimer(TimerState, minutes), "setTimer", minutes)

\* any live interval may fire, whether or not the controller still holds it
IntervalFires ==
    \E h \in intervals :
        /\ timerTick(TimerState).timeouts <= MaxTimeouts
        /\ TimerBecomes(timerTick(TimerState),
                        IF timerSeconds = 0 /\ timerMinutes = 0
                        THEN "timerComplete" ELSE "tick",
                        h)

TimeoutFires ==
    /\ timeouts > 0
    /\ TimerBecomes(timerCompleteTimeout(TimerState), "timeout", 0)

NextTimer ==
    \/ StartTimerClick
    \/ PauseTimerClick
    \/ ResetTimerClick
    \/ SetTimerClick
    \/ IntervalFires
    \/ TimeoutFires

----------------------------------------------------------------------------
(* Player actions: the listeners of setupEventListeners, the continuations *)
(* of a play() request, and the events of the media element.  playerOp     *)
(* records the handler that ran, the index it passed to loadTrack (arg),   *)
(* currentTrackIndex when it was invoked (was) and whether the range       *)
(* control was off zero then (moved).                                      *)

\* the handler's result r is computed once, then written to the variables
PlayerBecomes(p, op, arg) ==
    \E r \in {p} :
        /\ trackCount' = r.trackCount
        /\ isPlaying' = r.isPlaying
        /\ currentTrackIndex' = r.currentTrackIndex
        /\ isShuffled' = r.isShuffled
        /\ isRepeating' = r.isRepeating
        /\ audioSrc' = r.audioSrc
        /\ audioPaused' = r.audioPaused
        /\ audioTime' = r.audioTime
        /\ audioDuration' = r.audioDuration
        /\ playsAccepted' = r.playsAccepted
        /\ playsRefused' = r.playsRefused
        /\ active' = r.active
        /\ trackTitle' = r.trackTitle
        /\ progressBarValue' = r.progressBarValue
        /\ progressFillWidth' = r.progressFillWidth
        /\ currentTimeText' = r.currentTimeText
        /\ totalTimeText' = r.totalTimeText
        /\ fillPlaying' = r.fillPlaying
        /\ containerLoading' = r.containerLoading
        /\ playPauseIcon' = r.playPauseIcon
        /\ playerOp' = [op |-> op, arg |-> arg, was |-> currentTrackIndex,
                        moved |-> progressBarValue # Zero]
        /\ UNCHANGED <<timerVars, todoVars>>

PlayerConstructed(n, marked) ==
    \E r \in {constructed(n, marked)} :
        /\ trackCount = r.trackCount
        /\ isPlaying = r.isPlaying
        /\ currentTrackIndex = r.currentTrackIndex
        /\ isShuffled = r.isShuffled
        /\ isRepeating = r.isRepeating
        /\ audioSrc = r.audioSrc
        /\ audioPaused = r.audioPaused
        /\ audioTime = r.audioTime
        /\ audioDuration = r.audioDuration
        /\ playsAccepted = r.playsAccepted
        /\ playsRefused = r.playsRefused
        /\ active = r.active
        /\ trackTitle = r.trackTitle
        /\ progressBarValue = r.progressBarValue
        /\ progressFillWidth = r.progressFillWidth
        /\ currentTimeText = r.currentTimeText
        /\ totalTimeText = r.totalTimeText
        /\ fillPlaying = r.fillPlaying
        /\ containerLoading = r.containerLoading
        /\ playPauseIcon = r.playPauseIcon
        /\ playerOp = [op |-> "init", arg |-> 0, was |-> 0, moved |-> FALSE]

\* the page may hold any number of track entries, any of them marked active
InitPlayer ==
    \E n \in 0..MaxTracks :
        \E marked \in SUBSET (0..(n - 1)) : PlayerConstructed(n, marked)

Draws == 0..(RandomGrain - 1)

TogglePlayPauseClick ==
    \E started \in BOOLEAN :
        /\ isPlaying \/ playsAccepted + playsRefused < MaxPlayRequests
        /\ PlayerBecomes(togglePlayPause(PlayerState, started),
                         "togglePlayPause", 0)

PlayResolves ==
    /\ playsAccepted > 0
    /\ PlayerBecomes(playFulfilled(PlayerState), "playFulfilled", 0)

\* a request the host refused is rejected; one it started may still fail
PlayRejects ==
    \E wasStarted \in BOOLEAN :
        /\ IF wasStarted THEN playsAccepted > 0 ELSE playsRefused > 0
        /\ PlayerBecomes(playRejected(PlayerState, wasStarted),
                         "playRejected", 0)

PlayNextClick ==
    \E k \in Draws, started \in BOOLEAN :
        PlayerBecomes(playNext(PlayerState, k, started),
                      "playNext", nextIndex(PlayerState, k))

PlayPreviousClick ==
    \E started \in BOOLEAN :
        PlayerBecomes(playPrevious(PlayerState, started),
                      "playPrevious", prevIndex(PlayerState))

ToggleShuffleClick ==
    PlayerBecomes(toggleShuffle(PlayerState), "toggleShuffle", 0)

ToggleRepeatClick ==
    PlayerBecomes(toggleRepeat(PlayerState), "toggleRepeat", 0)

\* the user drags the range control to second k of the track
SeekInput ==
    \E k \in 0..TrackLength :
        PlayerBecomes(
            seekTrack([PlayerState EXCEPT
                          !.progressBarValue = Ratio(k * 100, TrackLength)]),
            "seekTrack", 0)

\* indexOf gives -1 when the entry clicked is no child of the track list
TrackListClick ==
    \E index \in -1..(trackCount - 1) :
        PlayerBecomes(trackListClick(PlayerState, index), "trackListClick", index)

\* 'loadedmetadata': the duration of the loaded resource becomes known
MetadataLoaded ==
    /\ audioSrc # NoSrc /\ IsNaN(audioDuration)
    /\ PlayerBecomes(
           updateTotalTime([PlayerState EXCEPT !.audioDuration = TrackLength]),
           "loadedmetadata", 0)

\* playback advances by a second and the element fires 'timeupdate'
AudioAdvances ==
    /\ ~audioPaused /\ ~IsNaN(audioDuration) /\ audioTime < audioDuration
    /\ PlayerBecomes(
           updateProgress([PlayerState EXCEPT !.audioTime = @ + 1]),
           "timeupdate", 0)

\* 'timeupdate' after a seek or a load
AudioTimeUpdate ==
    /\ audioSrc # NoSrc
    /\ PlayerBecomes(updateProgress(PlayerState), "timeupdate", 0)

\* playback reached the end: the element pauses itself and fires 'ended'
AudioEnded ==
    /\ ~audioPaused /\ ~IsNaN(audioDuration) /\ audioTime = audioDuration
    /\ \E k \in Draws, started \in BOOLEAN :
           PlayerBecomes(handleTrackEnd(audioPause(PlayerState), k, started),
                         "handleTrackEnd",
                         IF isRepeating THEN currentTrackIndex
                         ELSE nextIndex(PlayerState, k))

NextPlayer ==
    \/ TogglePlayPauseClick
    \/ PlayResolves
    \/ PlayRejects
    \/ PlayNextClick
    \/ PlayPreviousClick
    \/ ToggleShuffleClick
    \/ ToggleRepeatClick
    \/ SeekInput
    \/ TrackListClick
    \/ MetadataLoaded
    \/ AudioAdvances
    \/ AudioTimeUpdate
    \/ AudioEnded

----------------------------------------------------------------------------
(* Todo actions: the add button, the Enter key in the input, and clicks in *)
(* the rendered list.  todoOp records the handler that ran, the id it was  *)
(* handed and the text the input held.                                     *)

\* the handler's result r is computed once, then written to the variables
TodoBecomes(d, op, id, text) ==
    \E r \in {d} :
        /\ todos' = r.todos
        /\ todoIdCounter' = r.todoIdCounter
        /\ todoInputValue' = r.todoInputValue
        /\ todoListItems' = r.todoListItems
        /\ todoCountText' = r.todoCountText
        /\ todoOp' = [op |-> op, id |-> id, text |-> text]
        /\ UNCHANGED <<timerVars, playerVars>>

\* the page starts with an empty list and the count shown for it
InitTodo ==
    /\ todos = <<>>
    /\ todoIdCounter = 0
    /\ todoInputValue = ""
    /\ todoListItems = <<>>
    /\ todoCountText = "0"
    /\ todoOp = [op |-> "init", id |-> NaN, text |-> ""]

\* the input holding text, the handler's result d stays within the bounds
TodoWithinBounds(d) ==
    Len(d.todos) <= MaxTodos /\ d.todoIdCounter <= MaxTodoIds

\* the user leaves text in the input and clicks the add button
TodoAddClick ==
    \E text \in Texts :
        LET typed == [TodoState EXCEPT !.todoInputValue = text]
        IN  /\ TodoWithinBounds(addTodo(typed))
            /\ TodoBecomes(addTodo(typed), "addTodo", NaN, text)

\* the user leaves text in the input and presses a key in it
TodoInputKeypress ==
    \E text \in Texts, key \in {"Enter", "Escape"} :
        LET typed == [TodoState EXCEPT !.todoInputValue = text]
        IN  /\ TodoWithinBounds(todoInputKeypress(typed, key))
            /\ TodoBecomes(todoInputKeypress(typed, key),
                           IF key = "Enter" THEN "addTodo" ELSE "keypress",
                           NaN, text)

\* a click on an element of the rendered list
TodoListClick ==
    \E target \in TodoClickTargets(TodoState) :
        TodoBecomes(handleTodoClick(TodoState, target),
                    CASE target.class = "todo-checkbox" -> "toggleTodo"
                      [] target.class = "todo-delete" -> "deleteTodo"
                      [] OTHER -> "click",
                    parseInt(target.dataId), todoInputValue)

NextTodo ==
    \/ TodoAddClick
    \/ TodoInputKeypress
    \/ TodoListClick

----------------------------------------------------------------------------
(* Specifications.  The timer and the player share no state, so each is    *)
(* explored with the other left as constructed.                            *)

\* the timer under test, on a page with MaxTracks track entries
InitTimerSpec == InitTimer /\ PlayerConstructed(MaxTracks, {}) /\ InitTodo

SpecTimer == InitTimerSpec /\ [][NextTimer]_vars

\* the host runs a pending setTimeout callback once its delay has passed
SpecTimerFair == SpecTimer /\ WF_vars(TimeoutFires)

\* and a live interval keeps firing, once a second
SpecTimerTicking == SpecTimerFair /\ WF_vars(IntervalFires)

InitPlayerSpec == InitTimer /\ InitPlayer /\ InitTodo

SpecPlayer == InitPlayerSpec /\ [][NextPlayer]_vars

\* the todo list under test, on a page with MaxTracks track entries
InitTodoSpec == InitTimer /\ PlayerConstructed(MaxTracks, {}) /\ InitTodo

SpecTodo == InitTodoSpec /\ [][NextTodo]_vars

\* the whole controller
Init == InitTimer /\ InitPlayer /\ InitTodo
Next == NextTimer \/ NextPlayer \/ NextTodo
Spec == Init /\ [][Next]_vars

----------------------------------------------------------------------------
(* Timer properties.                                                       *)

TickOps == {"tick", "timerComplete"}
ResetOps == {"resetTimer", "timeout"}
TimeUnchanged == timerMinutes' = timerMinutes /\ timerSeconds' = timerSeconds

\* C1: in every reachable state the interval handle the controller holds
\* (timerInterval) is non-null if and only if timerRunning is true.
C1_HandleIffRunning == (timerInterval # NULL) <=> timerRunning

\* the timer is running again, on a held handle, after a pause in mid-count
C1_Witness ==
    /\ timerOp.op = "startTimer"
    /\ timerRunning /\ timerInterval # NULL
    /\ timerSeconds # 0

\* C2: at most one interval created by startTimer is live, and a live
\* interval is always the one the controller holds: none is ever leaked, so
\* no tick can come from an interval the controller has let go of.
C2_OneTickSource ==
    /\ Cardinality(intervals) <= 1
    /\ intervals = IF timerInterval = NULL THEN {} ELSE {timerInterval}

\* startTimer was called on a timer restarted after a preset and some ticks
C2_Witness ==
    /\ timerOp.op = "startTimer"
    /\ Cardinality(intervals) = 1
    /\ timerMinutes < 15

\* C3: the remaining time never underflows (minutes >= 0, seconds in 0..59);
\* startTimer at {0,0} changes nothing; a tick at {0,1} yields {0,0} and the
\* timer keeps running; the tick at {0,0} completes instead of decrementing.
C3_NoUnderflow ==
    /\ [](timerMinutes >= 0 /\ timerSeconds \in 0..59)
    /\ [][(timerOp'.op = "startTimer" /\ timerMinutes = 0 /\ timerSeconds = 0)
            => /\ UNCHANGED <<timerMinutes, timerSeconds, timerInterval,
                              timerRunning, timerDisplay, intervals, timeouts>>
               /\ (~timerRunning => ~timerRunning' /\ intervals' = {})]_vars
    /\ [][(timerOp'.op \in TickOps /\ timerMinutes = 0 /\ timerSeconds = 1)
            => /\ timerOp'.op = "tick"
               /\ timerMinutes' = 0 /\ timerSeconds' = 0
               /\ timerRunning']_vars
    /\ [][(timerOp'.op \in TickOps /\ timerMinutes = 0 /\ timerSeconds = 0)
            => /\ timerOp'.op = "timerComplete"
               /\ timerMinutes' = 0 /\ timerSeconds' = 0
               /\ ~timerRunning'
               /\ timerDisplay' = "Session Complete!"]_vars

\* startTimer was called at {0,0} reached by ticking (display 00:00), after
\* a pause: nothing started
C3_Witness ==
    /\ timerOp.op = "startTimer"
    /\ timerMinutes = 0 /\ timerSeconds = 0
    /\ timerDisplay = "00:00"
    /\ ~timerRunning

\* C4: after resetTimer, whether clicked or run by the delayed callback, from
\* any state, the timer is not running, no interval is live and the
\* remaining time is {60,0}, whatever preset was selected before.
C4_ResetRestoresDefault ==
    timerOp.op \in ResetOps
        => /\ ~timerRunning
           /\ timerInterval = NULL /\ intervals = {}
           /\ timerMinutes = 60 /\ timerSeconds = 0

\* resetTimer was clicked with 29 minutes and some seconds remaining, i.e.
\* after setTimer(30), startTimer and ticks
C4_Witness ==
    /\ timerOp.op = "resetTimer"
    /\ timerOp.was = 29
    /\ timerMinutes = 60

\* C5: pauseTimer stops the tick and leaves the remaining time unchanged;
\* while the timer is not running the remaining time changes only by
\* resetTimer (clicked, or invoked by the delayed callback) or setTimer; a
\* later startTimer keeps the preserved value and the next tick counts down
\* from it by one second.
C5_PausePreservesTime ==
    /\ [][timerOp'.op = "pauseTimer"
            => /\ TimeUnchanged
               /\ ~timerRunning' /\ intervals' = {}]_vars
    /\ [][(~timerRunning /\ ~TimeUnchanged)
            => timerOp'.op \in ResetOps \cup {"setTimer"}]_vars
    /\ [][timerOp'.op = "startTimer"
            => /\ TimeUnchanged
               /\ (timerMinutes > 0 \/ timerSeconds > 0) => timerRunning']_vars
    /\ [][timerOp'.op = "tick"
            => 60 * timerMinutes' + timerSeconds'
                 = 60 * timerMinutes + timerSeconds - 1]_vars

\* the timer was paused in mid-count
C5_Witness ==
    /\ timerOp.op = "pauseTimer"
    /\ ~timerRunning /\ intervals = {}
    /\ timerSeconds = 58

PresetDisplay(m) ==
    CASE m = 15 -> "15:00" [] m = 30 -> "30:00" [] m = 60 -> "60:00"

PresetFirstTick(m) ==
    CASE m = 15 -> "14:59" [] m = 30 -> "29:59" [] m = 60 -> "59:59"

\* C6: for every preset m, setTimer(m) from any state stops ticking and sets
\* the remaining time to {m,0} with the display reading m:00; startTimer
\* then starts the countdown without changing the time, and the first tick
\* yields {m-1,59} with the display reading (m-1):59.
C6_PresetThenTick ==
    /\ [](timerOp.op = "setTimer"
            => /\ timerOp.arg \in {15, 30, 60}
               /\ ~timerRunning /\ intervals = {}
               /\ timerMinutes = timerOp.arg /\ timerSeconds = 0
               /\ timerDisplay = PresetDisplay(timerOp.arg))
    /\ [][(timerOp.op = "setTimer" /\ timerOp'.op = "startTimer")
            => /\ timerRunning' /\ TimeUnchanged
               /\ timerDisplay' = timerDisplay]_vars
    /\ [][(timerOp'.op \in TickOps /\ timerMinutes \in {15, 30, 60}
             /\ timerSeconds = 0)
            => /\ timerMinutes' = timerMinutes - 1 /\ timerSeconds' = 59
               /\ timerDisplay' = PresetFirstTick(timerMinutes)]_vars

\* the first tick after setTimer(15) and startTimer
C6_Witness ==
    /\ timerOp.op = "tick"
    /\ timerMinutes = 14 /\ timerSeconds = 59
    /\ timerDisplay = "14:59"

Completed == timerOp.op = "timerComplete"

\* C7: when timerComplete has run, ticking is stopped and the display shows
\* the completion message; the delayed callback, when it fires, leaves the
\* timer reset (not running, {60,0}, display 60:00); and, the callback
\* firing, every completion is eventually followed by that reset state.
C7_CompleteThenReset ==
    /\ [](Completed
            => /\ ~timerRunning /\ timerInterval = NULL /\ intervals = {}
               /\ timerDisplay = "Session Complete!"
               /\ awaitingReset)
    /\ [](timerOp.op = "timeout" => IsReset(TimerState))
    /\ []<>(~awaitingReset)

\* the delayed callback ran on a completed countdown left untouched
C7_Witness ==
    /\ timerOp.op = "timeout"
    /\ timerOp.was = 0
    /\ timerDisplay = "60:00"
    /\ ~awaitingReset

----------------------------------------------------------------------------
(* Player properties.                                                      *)

ValidIndices == 0..(trackCount - 1)

\* indices outside [0, trackCount) that a caller can hand to loadTrack
InvalidIndices == {NaN, -1, trackCount, trackCount + 1}

RECURSIVE PlayNextTimes(_, _)
PlayNextTimes(p, times) ==
    IF times = 0 THEN p ELSE PlayNextTimes(playNext(p, 0, TRUE), times - 1)

\* C8: with shuffle off and trackCount = n >= 1, playNext moves the index
\* from i to (i+1) mod n, and n consecutive playNext calls from any reachable
\* state return to the index they started from; with shuffle on, the index
\* playNext chooses lies in [0,n) and becomes the current index.
C8_PlayNextCycles ==
    /\ [][(playerOp'.op = "playNext" /\ ~isShuffled /\ trackCount >= 1)
            => currentTrackIndex' = (currentTrackIndex + 1) % trackCount]_vars
    /\ []((~isShuffled /\ trackCount >= 1)
            => PlayNextTimes(PlayerState, trackCount).currentTrackIndex
                 = currentTrackIndex)
    /\ [][(playerOp'.op = "playNext" /\ isShuffled /\ trackCount >= 1)
            => /\ playerOp'.arg \in ValidIndices
               /\ currentTrackIndex' = playerOp'.arg]_vars

\* with tracks [A,B,C] and shuffle off, playNext has wrapped from 2 to 0
C8_Witness ==
    /\ playerOp.op = "playNext"
    /\ trackCount = 3 /\ ~isShuffled
    /\ playerOp.was = 2 /\ currentTrackIndex = 0

LoadTrackIgnoresInvalid ==
    \A index \in InvalidIndices : loadTrack(PlayerState, index) = PlayerState

\* C9 as stated: for any number of track entries, currentTrackIndex is in
\* [0, trackCount) in every reachable state, and loadTrack with an index
\* outside that range changes nothing.
C9_Original ==
    /\ currentTrackIndex \in ValidIndices
    /\ LoadTrackIgnoresInvalid

\* C9 (amended): on a page with at least one track entry, currentTrackIndex
\* is an integer in [0, trackCount) in every reachable state; and, for any
\* number of entries, loadTrack with an index outside that range changes no
\* player state.
C9_IndexInRange ==
    /\ trackCount >= 1 => currentTrackIndex \in ValidIndices
    /\ LoadTrackIgnoresInvalid

\* a click handed loadTrack the index -1 and the third track stayed current
C9_Witness ==
    /\ playerOp.op = "trackListClick" /\ playerOp.arg = -1
    /\ trackCount = 3 /\ currentTrackIndex = 2

LoadTrackMarksOne ==
    \A index \in ValidIndices :
        LET q == loadTrack(PlayerState, index)
        IN  /\ q.active = {index}
            /\ q.currentTrackIndex = index
            /\ q.progressBarValue = <<0, 1>>
            /\ q.progressFillWidth = [n |-> <<0, 1>>, unit |-> "%"]
            /\ q.currentTimeText = "0:00"

\* C10 as stated: loadTrack(i) for valid i marks exactly entry i active and
\* resets the progress display, and in every reachable state exactly one
\* entry is active, the one at currentTrackIndex.
C10_Original ==
    /\ LoadTrackMarksOne
    /\ Cardinality(active) = 1 /\ active = {currentTrackIndex}

\* C10 (amended): loadTrack(i) for valid i, from any reachable state, marks
\* exactly entry i active and resets the progress display (value 0, width
\* 0%, label 0:00); and on a page with at least one track entry, in every
\* reachable state exactly one entry is active, the one at currentTrackIndex.
C10_OneActive ==
    /\ LoadTrackMarksOne
    /\ trackCount >= 1
         => Cardinality(active) = 1 /\ active = {currentTrackIndex}

\* a click loaded the third track while the range control was off zero
C10_Witness ==
    /\ playerOp.op = "trackListClick" /\ playerOp.arg = 2
    /\ playerOp.was = 0 /\ playerOp.moved
    /\ active = {2}
    /\ progressBarValue = <<0, 1>> /\ currentTimeText = "0:00"

\* C11: when a play() request issued by togglePlayPause fails, the failure
\* continuation removes the loading marker and changes nothing else of the
\* player: isPlaying, currentTrackIndex, isShuffled, isRepeating, the icon,
\* the playing marker and the media element are as they were just before.
C11_RejectionKeepsState ==
    [][playerOp'.op = "playRejected"
         => /\ ~containerLoading'
            /\ UNCHANGED <<isPlaying, currentTrackIndex, isShuffled,
                           isRepeating, playPauseIcon, fillPlaying, active,
                           trackTitle, audioSrc, audioPaused, audioTime,
                           audioDuration, progressBarValue, currentTimeText>>
            /\ playsAccepted' + playsRefused'
                 = playsAccepted + playsRefused - 1]_vars

\* a request failed while the player was playing the shuffled third track:
\* the marker is gone and the player plays on
C11_Witness ==
    /\ playerOp.op = "playRejected"
    /\ ~containerLoading
    /\ isPlaying /\ isShuffled /\ currentTrackIndex = 2
    /\ playPauseIcon = "pause"

\* the last handler was togglePlayPause taking its pause branch (the play
\* branch leaves the loading marker set)
PausedByToggle ==
    playerOp.op = "togglePlayPause" /\ ~isPlaying /\ ~containerLoading

\* C12 as stated: a success continuation that runs after the user has paused
\* through togglePlayPause leaves the player paused: isPlaying false, the
\* play icon shown, no playing marker.  Stated for the continuation that
\* runs right after the pause, its request having been issued before it.
C12_Original ==
    [][(PausedByToggle /\ playerOp'.op = "playFulfilled")
         => /\ ~isPlaying'
            /\ playPauseIcon' = "play"
            /\ ~fillPlaying']_vars

----------------------------------------------------------------------------
(* Todo properties.                                                        *)

TodoIds == {todos[i].id : i \in 1..Len(todos)}

\* C13: in every reachable state the ids of the collection are pairwise
\* distinct, strictly increasing in collection order and all smaller than
\* todoIdCounter; and no id is assigned twice: the counter never decreases
\* and an id that enters the collection is at least the counter before it
\* entered, hence larger than every id assigned (and possibly deleted) so far.
C13_IdsUniqueIncreasing ==
    /\ [](\A i, j \in 1..Len(todos) : i < j => todos[i].id < todos[j].id)
    /\ [](\A i, j \in 1..Len(todos) : i # j => todos[i].id # todos[j].id)
    /\ [](\A i \in 1..Len(todos) : todos[i].id \in 0..(todoIdCounter - 1))
    /\ [][todoIdCounter' >= todoIdCounter]_vars
    /\ [][\A id \in TodoIds' \ TodoIds : id >= todoIdCounter]_vars

\* an entry was added after the entry with id 0 had been deleted: the
\* collection holds ids 1 and 2, in that order
C13_Witness ==
    /\ todoOp.op = "addTodo"
    /\ Len(todos) = 2
    /\ todos[1].id = 1 /\ todos[2].id = 2
    /\ todoIdCounter = 3

\* the number of entries of the collection that are not completed
Remaining == Cardinality({i \in 1..Len(todos) : ~todos[i].completed})

Position(id) == CHOOSE i \in 1..Len(todos) : todos[i].id = id

\* the collection without its entry at position i, the others in order
Without(i) ==
    [j \in 1..(Len(todos) - 1) |-> IF j < i THEN todos[j] ELSE todos[j + 1]]

NonBlankTexts == {"a", " b "}

\* C14: addTodo with non-blank text appends exactly one entry, not
\* completed, at the end, and raises the remaining count by 1; toggleTodo on
\* an id of the collection flips that entry only, lowering the remaining
\* count by 1 when it was incomplete and raising it by 1 when it was
\* completed; deleteTodo on an id of the collection removes exactly that
\* entry, the length drops by 1 (back to what it was before the entry was
\* added) and every other entry keeps its id, text, flag and order.
C14_AddToggleDelete ==
    /\ [][(todoOp'.op = "addTodo" /\ todoOp'.text \in NonBlankTexts)
            => /\ Len(todos') = Len(todos) + 1
               /\ SubSeq(todos', 1, Len(todos)) = todos
               /\ todos'[Len(todos')].completed = FALSE
               /\ todos'[Len(todos')].text \in {"a", "b"}
               /\ Remaining' = Remaining + 1]_vars
    /\ [][(todoOp'.op = "toggleTodo" /\ todoOp'.id \in TodoIds)
            => LET i == Position(todoOp'.id)
               IN  /\ todos' = [todos EXCEPT ![i].completed = ~@]
                   /\ Remaining' = IF todos[i].completed THEN Remaining + 1
                                   ELSE Remaining - 1]_vars
    /\ [][(todoOp'.op = "deleteTodo" /\ todoOp'.id \in TodoIds)
            => /\ todos' = Without(Position(todoOp'.id))
               /\ Len(todos') = Len(todos) - 1]_vars

\* the entry with id 1 was deleted from between two others, which are as
\* they were: the first completed, the last not
C14_Witness ==
    /\ todoOp.op = "deleteTodo" /\ todoOp.id = 1
    /\ Len(todos) = 2
    /\ todos[1] = [id |-> 0, text |-> "a", completed |-> TRUE]
    /\ todos[2] = [id |-> 2, text |-> "b", completed |-> FALSE]

Numeral(n) ==
    CASE n = 0 -> "0" [] n = 1 -> "1" [] n = 2 -> "2" [] n = 3 -> "3"
      [] n = 4 -> "4" [] n = 5 -> "5" [] n = 6 -> "6" [] n = 7 -> "7"
      [] n = 8 -> "8" [] n = 9 -> "9"

TodoOps == {"addTodo", "toggleTodo", "deleteTodo"}

\* C15: after every addTodo, toggleTodo and deleteTodo the count displayed
\* is the number of entries not completed, and the rendered list holds one
\* item per entry of the collection, in collection order, showing the
\* entry's text and flag and tagged with its id.
C15_DisplayInSync ==
    todoOp.op \in TodoOps
        => /\ todoCountText = Numeral(Remaining)
           /\ Len(todoListItems) = Len(todos)
           /\ \A i \in 1..Len(todos) :
                  /\ todoListItems[i].text = todos[i].text
                  /\ todoListItems[i].checked = todos[i].completed
                  /\ todoListItems[i].struck = todos[i].completed
                  /\ todoListItems[i].checkboxId = Numeral(todos[i].id)
                  /\ todoListItems[i].deleteId = Numeral(todos[i].id)

\* the second of two entries was completed: the count shows 1 and the
\* second item is checked
C15_Witness ==
    /\ todoOp.op = "toggleTodo" /\ todoOp.id = 1
    /\ todoCountText = "1"
    /\ Len(todoListItems) = 2
    /\ ~todoListItems[1].checked /\ todoListItems[2].checked
    /\ todoListItems[2].text = "b"

BlankTexts == {"", "  "}

\* ids the collection does not hold, NaN (no data-id) among them
AbsentIds == ({NaN, -1} \cup 0..MaxTodoIds) \ TodoIds

TodoUnchanged ==
    UNCHANGED <<todos, todoIdCounter, todoListItems, todoCountText>>

\* C16: rejected operations change nothing of the task list: addTodo on
\* text that trims to nothing, toggleTodo and deleteTodo with an id the
\* collection does not hold, and a click on an element without an id leave
\* the collection, the flags, todoIdCounter, the rendered list and the
\* count as they were.
C16_RejectedTodoOps ==
    /\ [][(todoOp'.op = "addTodo" /\ todoOp'.text \in BlankTexts)
            => TodoUnchanged /\ Remaining' = Remaining]_vars
    /\ [][todoOp'.op \in {"click", "keypress"} => TodoUnchanged]_vars
    /\ [](\A id \in AbsentIds :
              /\ toggleTodo(TodoState, id) = TodoState
              /\ deleteTodo(TodoState, id) = TodoState)
    /\ [](\A class \in {"todo-checkbox", "todo-delete", "todo-text"} :
              handleTodoClick(TodoState, [class |-> class,
                                          dataId |-> NoDataId]) = TodoState)

\* addTodo was called on blank text with two entries in the collection, one
\* of them completed, and one entry deleted earlier
C16_Witness ==
    /\ todoOp.op = "addTodo" /\ todoOp.text = "  "
    /\ Len(todos) = 2 /\ todoIdCounter = 3
    /\ todoCountText = "1"
    /\ Len(todoListItems) = 2

----------------------------------------------------------------------------
(* Player properties, continued.                                           *)

\* the media element is about to report the end of the track
TrackEnding ==
    ~audioPaused /\ ~IsNaN(audioDuration) /\ audioTime = audioDuration

\* the player as the 'ended' listener finds it
Ended == audioPause(PlayerState)

\* C17: when the media element reports the end of a track and isRepeating
\* is true, currentTrackIndex and the source are unchanged, the position is
\* zero and playback was requested (it runs when the host allows it);
\* otherwise the handler does exactly what playNext does: with shuffle off
\* the index becomes (i+1) mod trackCount, the new track is loaded, and
\* playback is requested if and only if isPlaying is true.
C17_TrackEnd ==
    /\ []((TrackEnding /\ isRepeating)
            => \A k \in Draws :
                   LET q == handleTrackEnd(Ended, k, TRUE)
                   IN  /\ q.currentTrackIndex = currentTrackIndex
                       /\ q.audioSrc = audioSrc
                       /\ q.audioTime = 0
                       /\ ~q.audioPaused)
    /\ []((TrackEnding /\ ~isRepeating)
            => \A k \in Draws, started \in BOOLEAN :
                   handleTrackEnd(Ended, k, started)
                     = playNext(Ended, k, started))
    /\ []((TrackEnding /\ ~isRepeating /\ ~isShuffled /\ trackCount >= 1)
            => \A k \in Draws :
                   LET q == handleTrackEnd(Ended, k, TRUE)
                   IN  /\ q.currentTrackIndex
                            = (currentTrackIndex + 1) % trackCount
                       /\ q.audioSrc = q.currentTrackIndex
                       /\ q.audioPaused <=> ~isPlaying)
    /\ [][(playerOp'.op = "handleTrackEnd" /\ isRepeating)
            => /\ currentTrackIndex' = currentTrackIndex
               /\ audioSrc' = audioSrc
               /\ audioTime' = 0]_vars
    /\ [][(playerOp'.op = "handleTrackEnd" /\ ~isRepeating /\ ~isShuffled
             /\ trackCount >= 1)
            => /\ currentTrackIndex' = (currentTrackIndex + 1) % trackCount
               /\ audioSrc' = currentTrackIndex'
               /\ ~isPlaying => audioPaused']_vars

\* the second track ended with repeat on and is playing again from zero
C17_Witness ==
    /\ playerOp.op = "handleTrackEnd"
    /\ isRepeating /\ isPlaying
    /\ playerOp.was = 1 /\ currentTrackIndex = 1
    /\ audioTime = 0 /\ ~audioPaused

----------------------------------------------------------------------------
(* Timer properties, continued.                                            *)

\* the handlers that stop a countdown short of its completion: pauseTimer,
\* and resetTimer and setTimer, which call it; resetTimer runs on a click
\* and in the delayed callback of a completion
StopOps == {"pauseTimer", "resetTimer", "setTimer", "timeout"}

SecondsLeft == 60 * timerMinutes + timerSeconds

\* C18: ticks firing, a started timer does not run for ever, and it leaves
\* Running only by a pause, reset or preset or by completing, so that left
\* without these it reaches Completed; every non-completing tick lowers the
\* remaining time by exactly one second and keeps the timer running;
\* timerComplete runs on the tick that finds minutes and seconds at zero and
\* on no other, and stops the ticks, so it runs once per countdown.
C18_CountdownCompletes ==
    /\ []<>(~timerRunning)
    /\ [][(timerRunning /\ ~timerRunning')
            => timerOp'.op \in StopOps \cup {"timerComplete"}]_vars
    /\ [][timerOp'.op = "tick"
            => /\ SecondsLeft > 0
               /\ SecondsLeft' = SecondsLeft - 1
               /\ timerRunning /\ timerRunning']_vars
    /\ [][timerOp'.op = "timerComplete"
            => /\ SecondsLeft = 0 /\ timerRunning
               /\ ~timerRunning' /\ intervals' = {}]_vars
    /\ [][(timerOp'.op \in TickOps /\ SecondsLeft = 0)
            => timerOp'.op = "timerComplete"]_vars

\* a countdown has just completed: the ticks are stopped at {0,0} and the
\* delayed reset is pending
C18_Witness ==
    /\ timerOp.op = "timerComplete"
    /\ timerMinutes = 0 /\ timerSeconds = 0
    /\ ~timerRunning /\ intervals = {}
    /\ timeouts = 1

\* n in 0..99 as two decimal digits
TwoDigits(n) == Numeral(n \div 10) \o Numeral(n % 10)

\* the handlers that leave the completion message in place: startTimer and
\* pauseTimer do nothing at {0,0}, not running
MessageKeepers == {"timerComplete", "startTimer", "pauseTimer"}

\* C19: in every reachable state the display shows the completion message
\* or the two-digit mm:ss of the current timerMinutes and timerSeconds; the
\* message appears only by a completion, is gone after every resetTimer and
\* setTimer, and while it shows nothing but the completion and handlers
\* that changed nothing has run; in every other state the display is
\* the rendering of the remaining time.
C19_DisplayFresh ==
    /\ [](timerDisplay # "Session Complete!"
            => timerDisplay
                 = TwoDigits(timerMinutes) \o ":" \o TwoDigits(timerSeconds))
    /\ [](timerDisplay = "Session Complete!"
            => /\ timerOp.op \in MessageKeepers
               /\ timerMinutes = 0 /\ timerSeconds = 0 /\ ~timerRunning)
    /\ [](timerOp.op \in ResetOps \cup {"setTimer"}
            => timerDisplay # "Session Complete!")
    /\ [][(timerDisplay # "Session Complete!"
             /\ timerDisplay' = "Session Complete!")
            => timerOp'.op = "timerComplete"]_vars

\* startTimer was clicked while the completion message was showing: the
\* message is still there
C19_Witness ==
    /\ timerOp.op = "startTimer"
    /\ timerDisplay = "Session Complete!"
    /\ timeouts = 1

\* the handlers a user runs on the timer that stop it, and its completion
UserStopOps == {"pauseTimer", "resetTimer", "setTimer", "timerComplete"}

\* C20 as stated: the delayed callback of a completion alters nothing once
\* the completed countdown has been replaced (the message is gone, by a
\* preset or a reset chosen since): remaining time, running flag and
\* interval stay as they are; and a running timer stops running only by a
\* pause, reset or preset of the user or by its own completion.
C20_Original ==
    /\ [][(timerOp'.op = "timeout" /\ timerDisplay # "Session Complete!")
            => UNCHANGED <<timerMinutes, timerSeconds, timerRunning,
                           timerInterval, intervals, timerDisplay>>]_vars
    /\ [][(timerRunning /\ ~timerRunning')
            => timerOp'.op \in UserStopOps]_vars

----------------------------------------------------------------------------
(* Player properties: the flag, the media element and the markers.         *)

\* play() requests of togglePlayPause whose continuation has not run yet
PlaysInFlight == playsAccepted + playsRefused

\* C21 as stated: whenever isPlaying is true and no playback-start request
\* is in flight, the media element is playing (not paused) and its source
\* is the track at currentTrackIndex.
C21_Original ==
    (isPlaying /\ PlaysInFlight = 0)
        => ~audioPaused /\ audioSrc = currentTrackIndex

\* C22 as stated: the 'playing' marker is on the progress fill exactly when
\* isPlaying is true, and the 'loading' marker is on the progress container
\* only while a play() request of togglePlayPause is unresolved.
C22_Original ==
    /\ fillPlaying <=> isPlaying
    /\ containerLoading => PlaysInFlight > 0

====
